---------------------------- MODULE Spec2Model ----------------------------
(***************************************************************************)
(* The LED sign scheduler of src/web (app.py, sql.py, sign.py): the        *)
(* durable store (templates, schedule, last_run), the APScheduler job set  *)
(* held in memory, the startup sequence of __main__, the create/delete     *)
(* routes and the executor that turns a stored template into a device      *)
(* command.                                                                *)
(*                                                                         *)
(* Time is counted in ticks; TicksPerDay ticks make a calendar day.  A     *)
(* stored scheduled_datetime is text: it is kept as the separator it was   *)
(* written with ("T" for the browser's 'YYYY-MM-DDTHH:MM', " " for         *)
(* 'YYYY-MM-DD HH:MM:SS', "?" for text that is no ISO timestamp) and the   *)
(* instant it denotes.  The clock value now = t stands for a reading of     *)
(* datetime.now() after instant t and before instant t + 1: the clock has   *)
(* microseconds, the stored timestamps have none.                           *)
(***************************************************************************)
EXTENDS Integers, Sequences, FiniteSets, TLC

VARIABLES
    pc,          \* position of the process in __main__
    now,         \* the wall clock, in ticks
    templates,   \* table templates(id, name, payload)
    schedule,    \* table schedule(id, name, scheduled_datetime, is_recurring,
                 \*                recurring_weekdays, template_id)
    last_run,    \* table last_run: <<>> or <<row>> (id = 1 is the only id)
    seq_t,       \* AUTOINCREMENT high-water mark of templates
    seq_s,       \* AUTOINCREMENT high-water mark of schedule
    jobs,        \* the scheduler's jobs (pending before start(), live after)
    instances,   \* per schedule id, the callbacks of its job now running in the pool
    flash,       \* what the last route reported to its caller
    requests,    \* the route handlers that have begun and not yet returned
    blocked,     \* the schedule ids whose callback waits in sock.recv for a response
                 \* line that does not come
    h_steps,     \* history: the statements of __main__ that have returned in this process
    h_exec,      \* history: the last executor invocation, what it did, and for how many
                 \* fire times of its timer it stood
    h_recovered, \* history: executor invocations made by crash recovery in this process
    h_load,      \* history: per row id, how load_scheduled_jobs just left it
    h_form,      \* history: per row id, the recurring_time the creation request carried
    h_sweep,     \* history: the clock value the expiry sweep just used
    h_reg,       \* history: per schedule id, add_job calls of this process (2 = two or more)
    h_deleted,   \* history: per schedule id, what the delete requests for it have done
                 \*          ("deleted" once one removed its row, else "not found")
    h_once       \* history: per schedule id, the callbacks the scheduler has started
                 \*          for a one-shot that was created with a timestamp still to
                 \*          come ("pending": none yet, "once", "more")

vars == <<pc, now, templates, schedule, last_run, seq_t, seq_s,
          jobs, instances, flash, requests, blocked,
          h_steps, h_exec, h_recovered, h_load, h_form, h_sweep,
          h_reg, h_deleted, h_once>>

store == <<templates, schedule, last_run, seq_t, seq_s>>
hist  == <<h_steps, h_exec, h_recovered, h_load, h_form, h_sweep>>
hist2 == <<h_reg, h_deleted, h_once>>

-----------------------------------------------------------------------------
(* Bounds of the model *)

MaxTime == 4          \* the clock stops advancing here
MaxSchedules == 1     \* schedule rows ever inserted
MaxTemplates == 1     \* template rows ever inserted

(* Scale of the clock *)
TicksPerDay == 2
StartTime == TicksPerDay   \* first boot happens as day 1 begins; day 0 is the past

Day(t) == t \div TicksPerDay
Tod(t) == t % TicksPerDay
\* day 0 is a Sunday, day 1 a Monday (0 = Monday, as datetime.weekday() counts)
Weekday(t) == (Day(t) + 6) % 7


-----------------------------------------------------------------------------
(* Text and JSON helpers *)

Digit == <<"0", "1", "2", "3", "4", "5", "6", "7", "8", "9">>

RECURSIVE IntStr(_)
\* str(n) of a non-negative int, as the f-strings of sign.py format it
IntStr(n) == IF n < 10 THEN Digit[n + 1] ELSE IntStr(n \div 10) \o Digit[(n % 10) + 1]

\* json.dumps of a list: the stored text is a JSON array
json_dumps_list(elems) ==
    [json |-> "array", elems |-> elems, keys |-> {}, name |-> "", items |-> <<>>, text |-> <<>>]

\* json.dumps of a dict: the stored text is a JSON object with these members
json_dumps_dict(keys, name, items, text) ==
    [json |-> "object", elems |-> <<>>, keys |-> keys, name |-> name, items |-> items, text |-> text]

\* parseJSONPayload: json.loads gives a Python list for an array, a dict for an
\* object, and the function returns None for text that is not JSON
parseJSONPayload(payload) ==
    IF payload.json = "array"
    THEN [py |-> "list", elems |-> payload.elems, keys |-> {}, name |-> "", items |-> <<>>, text |-> <<>>]
    ELSE IF payload.json = "object"
    THEN [py |-> "dict", elems |-> <<>>, keys |-> payload.keys, name |-> payload.name,
          items |-> payload.items, text |-> payload.text]
    ELSE [py |-> "None", elems |-> <<>>, keys |-> {}, name |-> "", items |-> <<>>, text |-> <<>>]

\* Python truth value of a parsed payload: None, an empty list and an empty dict are false
Truthy(data) ==
    IF data.py = "list" THEN data.elems # <<>>
    ELSE IF data.py = "dict" THEN data.keys # {}
    ELSE FALSE

\* one display item as the routes write it; speed = -1 stands for "no speed key"
Item(type, content, x, y, color, speed) ==
    [type |-> type, content |-> content, x |-> x, y |-> y, color |-> color, speed |-> speed]

\* int(color_hex[i:i+2], 16) for i in (0, 2, 4), on the hex digits after lstrip('#')
HexColor(hex) ==
    <<16 * hex[1] + hex[2], 16 * hex[3] + hex[4], 16 * hex[5] + hex[6]>>

RECURSIVE parse_form_items(_)
\* parse_form: the 'items' list built from the text_content_i form fields
parse_form_items(fields) ==
    IF fields = <<>> THEN <<>>
    ELSE LET f == Head(fields)
             rest == parse_form_items(Tail(fields))
         IN  IF f.content = "" THEN rest
             ELSE IF Len(f.color) # 6 THEN rest
             ELSE IF f.element_type = "mixed"
                  THEN <<Item("scroll", f.content, f.x, f.y, HexColor(f.color), f.speed)>> \o rest
                  ELSE <<Item(f.element_type, f.content, f.x, f.y, HexColor(f.color), -1)>> \o rest

-----------------------------------------------------------------------------
(* The store: sql.py *)

get_scheduled_item(item_id) == {r \in schedule : r.id = item_id}
get_template(template_id) == {t \in templates : t.id = template_id}

ColorStr(color) ==
    "(" \o IntStr(color[1]) \o "," \o IntStr(color[2]) \o "," \o IntStr(color[3]) \o ")"

\* the fragment one item of the template contributes to the command
Fragment(item) ==
    IF item.type = "static"
    THEN "STATIC;" \o item.content \o ";" \o IntStr(item.x) \o ";" \o IntStr(item.y)
         \o ";" \o ColorStr(item.color) \o ";END;"
    ELSE IF item.type = "scrolling"
    THEN "SCROLL;" \o item.content \o ";" \o IntStr(item.x) \o ";" \o IntStr(item.y)
         \o ";" \o ColorStr(item.color) \o ";"
         \o IntStr(IF item.speed = -1 THEN 1 ELSE item.speed) \o ";END;"
    ELSE ""

RECURSIVE Fragments(_)
Fragments(items) ==
    IF items = <<>> THEN "" ELSE Fragment(Head(items)) \o Fragments(Tail(items))

\* what the device endpoint does with a connection: it answers, the socket file is
\* not there, nobody listens on it, the channel breaks while it is in use, or the
\* endpoint accepts the connection and the command and sends nothing back
Channels == {"up", "absent", "refused", "broken", "silent"}

\* stands for the response of a call that does not return: sock.recv(1) has no
\* timeout and waits for as long as the endpoint keeps the connection open
NeverReturns == "(recv waits)"

\* send_command without its except clauses: the exception reaches the caller
send_command_unguarded(command, channel) ==
    IF channel = "up" THEN "OK"
    ELSE IF channel = "absent" THEN "FileNotFoundError"
    ELSE IF channel = "refused" THEN "ConnectionRefusedError"
    ELSE IF channel = "silent" THEN NeverReturns
    ELSE "BrokenPipeError"

\* send_command: the response line, or the "ERROR: ..." string of the except clause
\* that caught the failure (the last one formats str(e))
send_command(command, channel) ==
    IF channel = "up" THEN "OK"
    ELSE IF channel = "absent" THEN "ERROR: LED sign server not running (socket not found)"
    ELSE IF channel = "silent" THEN NeverReturns
    ELSE IF channel = "refused" THEN "ERROR: Connection refused by LED sign server"
    ELSE "ERROR: [Errno 32] Broken pipe"

\* how a call of the executor that reached send_command ends
Sent(command, response) ==
    [result |-> IF response = NeverReturns THEN "blocked" ELSE "sent",
     cmd |-> command, resp |-> IF response = NeverReturns THEN "" ELSE response]

\* an executor that falls back to an empty display when the row or the template is
\* not there, instead of giving up
execute_scheduled_item_fallback(schedule_id, channel) ==
    LET rows == get_scheduled_item(schedule_id)
        tpl == UNION {get_template(r.template_id) : r \in rows} IN
    IF tpl = {} THEN Sent("SET", send_command("SET", channel))
    ELSE
    LET template_data == parseJSONPayload((CHOOSE t \in tpl : TRUE).payload) IN
    IF ~Truthy(template_data) THEN [result |-> "bad_payload", cmd |-> "", resp |-> ""]
    ELSE IF template_data.py = "list" THEN [result |-> "raised", cmd |-> "", resp |-> ""]
    ELSE
    LET sign_config == IF "items" \in template_data.keys THEN template_data.items ELSE <<>>
        command == "SET" \o Fragments(sign_config) IN
    Sent(command, send_command(command, channel))

\* execute_scheduled_item(schedule_id, name): what one invocation does.
\* result: "sent" (a command went to send_command, which returned), "blocked" (it went
\* there and send_command does not return), "no_template", "bad_payload", or "raised"
\* (an exception left the function).
execute_scheduled_item(schedule_id, channel) ==
    LET rows == get_scheduled_item(schedule_id) IN
    IF rows = {} THEN [result |-> "raised", cmd |-> "", resp |-> ""]
    ELSE
    LET row == CHOOSE r \in rows : TRUE
        tpl == get_template(row.template_id) IN
    IF tpl = {} THEN [result |-> "no_template", cmd |-> "", resp |-> ""]
    ELSE
    LET template == CHOOSE t \in tpl : TRUE
        template_data == parseJSONPayload(template.payload) IN
    IF ~Truthy(template_data) THEN [result |-> "bad_payload", cmd |-> "", resp |-> ""]
    ELSE IF template_data.py = "list" THEN [result |-> "raised", cmd |-> "", resp |-> ""]
    ELSE
    LET sign_config == IF "items" \in template_data.keys THEN template_data.items ELSE <<>>
        command == "SET" \o Fragments(sign_config) IN
    Sent(command, send_command(command, channel))

-----------------------------------------------------------------------------
(* Timestamps as text, and as datetime *)

\* frac: whether the text goes on after the seconds (".ffffff")
Stamp(sep, t) == [sep |-> sep, t |-> t, frac |-> FALSE]

\* the placeholder route_add_schedule stores for a recurring item: '2024-01-01 00:00:00'
Placeholder == Stamp(" ", 0)

\* datetime.fromisoformat accepts either separator and raises ValueError otherwise
IsoParseable(s) == s.sep \in {"T", " "}
fromisoformat(s) == s.t

\* sqlite3 binds a datetime parameter as its isoformat(" ") text, microseconds included
adapt_datetime(t) == [sep |-> " ", t |-> t, frac |-> TRUE]

\* code point of the character at index 10 of the text
SepOrd(sep) == IF sep = " " THEN 32 ELSE 84

\* a < b as SQLite compares two TEXT values: byte by byte (a proper prefix sorts
\* first).  Text that is no timestamp starts with a letter and sorts after every
\* timestamp.
TextLess(a, b) ==
    IF a.sep = "?" \/ b.sep = "?" THEN a.sep # "?" /\ b.sep = "?"
    ELSE \/ Day(a.t) < Day(b.t)
         \/ /\ Day(a.t) = Day(b.t)
            /\ \/ SepOrd(a.sep) < SepOrd(b.sep)
               \/ /\ SepOrd(a.sep) = SepOrd(b.sep)
                  /\ \/ Tod(a.t) < Tod(b.t)
                     \/ Tod(a.t) = Tod(b.t) /\ ~a.frac /\ b.frac

\* the sweep with "AND is_recurring = 0" left out of the DELETE
clear_expired_any_row(rows, before_datetime) ==
    {r \in rows : ~TextLess(r.scheduled_datetime, adapt_datetime(before_datetime))}

\* clear_expired_scheduled_items(before_datetime): the rows the DELETE leaves
clear_expired_scheduled_items(rows, before_datetime) ==
    {r \in rows : ~(TextLess(r.scheduled_datetime, adapt_datetime(before_datetime))
                    /\ r.is_recurring = 0)}

-----------------------------------------------------------------------------
(* Triggers *)

NoTime == -1      \* Python None where a time is expected
Star == -1        \* the cron field '*'
AllDays == 0 .. 6

DateTrigger(run_date) ==
    [kind |-> "date", run_date |-> run_date, minute |-> Star, hour |-> Star, dow |-> {}]

\* the result of create_cron_from_weekdays_time: a crontab expression, or None
CronExpr(minute, hour, dow) == [none |-> FALSE, minute |-> minute, hour |-> hour, dow |-> dow]
NoCronExpr == [none |-> TRUE, minute |-> Star, hour |-> Star, dow |-> {}]

\* Convert: 0(Mon)->1, 1(Tue)->2, ..., 6(Sun)->0
cron_day(day_int) == IF day_int = 6 THEN 0 ELSE day_int + 1

\* weekdays: the ints of the comma-separated text ("0,2,4" is <<0, 2, 4>>, NULL or ''
\* is <<>>); time: the ints of the colon-separated text ("09:30" is <<9, 30>>, None or
\* '' is <<>>).  Unpacking anything but two fields raises ValueError: None.
create_cron_from_weekdays_time(weekdays, time) ==
    IF weekdays = <<>> \/ time = <<>> THEN NoCronExpr
    ELSE IF Len(time) # 2 THEN NoCronExpr
    ELSE CronExpr(time[2], time[1], {cron_day(weekdays[i]) : i \in 1 .. Len(weekdays)})

\* CronTrigger.from_crontab: each field is handed to CronTrigger as written; a value
\* outside its field's range raises ValueError (ok = FALSE).  CronTrigger numbers
\* the days of the week from 0 = Monday.
from_crontab(expr) ==
    [ok |-> /\ expr.minute \in {Star} \cup (0 .. 59)
            /\ expr.hour \in {Star} \cup (0 .. 23)
            /\ expr.dow \subseteq AllDays,
     trigger |-> [kind |-> "cron", run_date |-> NoTime, minute |-> expr.minute,
                  hour |-> expr.hour, dow |-> expr.dow]]

EveryHour == CronExpr(0, Star, AllDays)         \* '0 * * * *'
NineDaily == CronExpr(0, 9, AllDays)           \* '0 9 * * *'

\* the tick of the day in which hour:minute falls
TodOf(hour, minute) == ((hour * 60 + minute) * TicksPerDay) \div 1440

\* whether the trigger has a fire time at instant t (weekday 0 = Monday)
FiresAt(trigger, t) ==
    IF trigger.kind = "date" THEN t = trigger.run_date
    ELSE /\ Weekday(t) \in trigger.dow
         /\ \/ trigger.hour = Star
            \/ Tod(t) = TodOf(trigger.hour, IF trigger.minute = Star THEN 0 ELSE trigger.minute)

\* whether the trigger fires on weekday d (0 = Monday) at hour:minute
FiresOn(trigger, d, hour, minute) ==
    /\ trigger.kind = "cron"
    /\ d \in trigger.dow
    /\ trigger.hour \in {Star, hour}
    /\ trigger.minute \in {Star, minute}

-----------------------------------------------------------------------------
(* The scheduler: BackgroundScheduler(coalesce, max_instances=1, misfire_grace_time) *)

GraceTicks == 1   \* misfire_grace_time, in ticks
max_instances == 1

\* the executor without the check of the running instances
InstanceFree_unlimited(inst, item_id) == TRUE

\* the pool executor takes a run of the job only while fewer than max_instances
\* of its runs are in progress (the count is kept per job id)
InstanceFree(inst, item_id) == inst[item_id] < max_instances

\* a scheduler that runs a job however late it is
Misfired_never(run_time, t) == FALSE

\* the run is dropped when now - run_time is more than misfire_grace_time
Misfired(run_time, t) == t - run_time > GraceTicks

Horizon == MaxTime + 7 * TicksPerDay

Max(S) == CHOOSE x \in S : \A y \in S : y <= x
Min(S) == CHOOSE x \in S : \A y \in S : x <= y

\* trigger.get_next_fire_time(previous_fire_time, now): a date trigger gives its run
\* date once; a cron trigger gives its first fire time not before now, and after
\* the previous one
get_next_fire_time(trigger, previous, t) ==
    IF trigger.kind = "date"
    THEN IF previous = NoTime THEN trigger.run_date ELSE NoTime
    ELSE LET start == IF previous = NoTime \/ previous <= t THEN t + 1 ELSE previous + 1
             fire == {u \in start .. Horizon : FiresAt(trigger, u)}
         IN  IF fire = {} THEN NoTime ELSE Min(fire)

Job(id, trigger, schedule_id, name, next_run_time) ==
    [id |-> id, trigger |-> trigger, schedule_id |-> schedule_id, name |-> name,
     next_run_time |-> next_run_time]

\* the job id f"schedule_{item_id}"
JobId(item_id) == "schedule_" \o IntStr(item_id)

\* add_job without replace_existing: the job already held under the id stays
add_job_keep_existing(js, trigger, item_id, name, running, t) ==
    js \cup {[id |-> "schedule_" \o IntStr(item_id), trigger |-> trigger,
              schedule_id |-> item_id, name |-> name,
              next_run_time |-> IF running THEN get_next_fire_time(trigger, NoTime, t)
                                ELSE NoTime]}

\* add_job without id=: the scheduler gives every job it is handed an id of its own
add_job_without_id(js, trigger, item_id, name, running, t) ==
    js \cup {[id |-> "job_" \o IntStr(Cardinality(js)), trigger |-> trigger,
              schedule_id |-> item_id, name |-> name,
              next_run_time |-> IF running THEN get_next_fire_time(trigger, NoTime, t)
                                ELSE NoTime]}

\* scheduler.add_job(func=execute_scheduled_item, trigger, id, kwargs, replace_existing=True):
\* a job added before start() waits without a next run time; one added to a running
\* scheduler gets its first run time at once
add_job(js, trigger, item_id, name, running, t) ==
    {j \in js : j.id # JobId(item_id)}
        \cup {Job(JobId(item_id), trigger, item_id, name,
                  IF running THEN get_next_fire_time(trigger, NoTime, t) ELSE NoTime)}

\* a remove_job that leaves the job where it is
remove_job_none(js, item_id) == js

\* scheduler.remove_job(id); the route swallows JobLookupError
remove_job(js, item_id) == {j \in js : j.id # JobId(item_id)}

-----------------------------------------------------------------------------
(* load_scheduled_jobs: the loop body, per row *)

\* the loop body with the comparison of the skip turned round
LoadOutcome_skips_future(item, t) ==
    IF ~IsoParseable(item.scheduled_datetime) THEN "error"
    ELSE IF item.is_recurring = 0 /\ fromisoformat(item.scheduled_datetime) > t THEN "skipped"
    ELSE IF item.is_recurring = 1 /\ item.recurring_weekdays # <<>> THEN "error"
    ELSE "registered"

\* how the loop body ends for one row: "skipped" (continue: scheduled_dt is before the
\* reading of the clock), "registered" (add_job was called), "error" (an exception
\* reached the except clause)
LoadOutcome(item, t) ==
    IF ~IsoParseable(item.scheduled_datetime) THEN "error"
    ELSE IF item.is_recurring = 0 /\ fromisoformat(item.scheduled_datetime) <= t THEN "skipped"
    ELSE IF item.is_recurring = 1
         THEN IF item.recurring_weekdays # <<>>
              THEN "error"    \* item['recurring_time']: the table has no such column
              ELSE "registered"
         ELSE "registered"

\* the trigger the loop body builds for a row it registers
LoadTrigger(item) ==
    IF item.is_recurring = 1
    THEN from_crontab(EveryHour).trigger
    ELSE DateTrigger(fromisoformat(item.scheduled_datetime))

RECURSIVE LoadJobs_stops_at_error(_, _, _)
\* the loop with the try around the whole of it: the first exception ends the loop
LoadJobs_stops_at_error(rows, js, t) ==
    IF rows = {} THEN js
    ELSE LET item == CHOOSE r \in rows : TRUE
             rest == rows \ {item}
         IN  IF LoadOutcome(item, t) = "registered"
             THEN LoadJobs_stops_at_error(
                      rest, add_job(js, LoadTrigger(item), item.id, item.name, FALSE, t), t)
             ELSE IF LoadOutcome(item, t) = "error" THEN js
             ELSE LoadJobs_stops_at_error(rest, js, t)

RECURSIVE LoadJobs(_, _, _)
LoadJobs(rows, js, t) ==
    IF rows = {} THEN js
    ELSE LET item == CHOOSE r \in rows : TRUE
             rest == rows \ {item}
         IN  IF LoadOutcome(item, t) = "registered"
             THEN LoadJobs(rest, add_job(js, LoadTrigger(item), item.id, item.name, FALSE, t), t)
             ELSE LoadJobs(rest, js, t)

-----------------------------------------------------------------------------
(* Inputs the requests are drawn from *)

Labels == {"a"}
OneShotStamps ==
    {Stamp("T", StartTime), Stamp("T", StartTime + TicksPerDay),
     Stamp(" ", 0), Stamp(" ", StartTime), Stamp("?", 0)}
NoStamp == Stamp("", 0)          \* the form field left empty
WeekdayLists == {<<>>, <<0, 2, 4>>, <<6>>}
\* '', '09:30', '25:00' and '9'
TimeTexts == {<<>>, <<9, 30>>, <<25, 0>>, <<9>>}
Red == <<15, 15, 0, 0, 0, 0>>    \* "#ff0000"
Short == <<1, 2>>                \* "#12"
TemplateFields ==
    {[content |-> "HI", x |-> 0, y |-> 10, color |-> Red, element_type |-> e, speed |-> 1] :
        e \in {"static", "mixed"}}
\* the forms of route_add_template: no item, one item, a static and a scrolling one,
\* an item with the color "#12" alone, or that item followed by a well-formed one
TemplateForms ==
    {<<>>} \cup {<<fd>> : fd \in TemplateFields}
        \cup {<<[content |-> "NO", x |-> 0, y |-> 10, color |-> Short,
                 element_type |-> "static", speed |-> 1]>>,
               <<[content |-> "NO", x |-> 0, y |-> 10, color |-> Short,
                 element_type |-> "static", speed |-> 1],
                [content |-> "HI", x |-> 0, y |-> 10, color |-> Red,
                 element_type |-> "static", speed |-> 1]>>}
        \cup {<<[content |-> "HI", x |-> 0, y |-> 10, color |-> Red,
                 element_type |-> "static", speed |-> 1],
                [content |-> "GO", x |-> 0, y |-> 10, color |-> Red,
                 element_type |-> "mixed", speed |-> 1]>>}

ScheduleForms ==
    [label : Labels, scheduled_datetime : OneShotStamps \cup {NoStamp}, is_recurring : {FALSE},
     template_id : {0, 1}, weekdays : {<<>>}, recurring_time : {<<>>},
     custom_text : {"HI"}, custom_color : {Red}]
    \cup
    [label : Labels, scheduled_datetime : {NoStamp, Stamp("T", StartTime + TicksPerDay)},
     is_recurring : {TRUE}, template_id : {0, 1}, weekdays : WeekdayLists,
     recurring_time : TimeTexts, custom_text : {"HI"}, custom_color : {Red}]
    \cup
    [label : Labels, scheduled_datetime : {Stamp("T", StartTime + TicksPerDay)},
     is_recurring : {FALSE, TRUE}, template_id : {0}, weekdays : {<<0, 2, 4>>},
     recurring_time : {<<9, 30>>}, custom_text : {"HI"}, custom_color : {Short}]

\* the rows the database file may hold in last_run when the process first starts:
\* nothing in src/web writes this table.  schedule_id 0 stands for NULL (no row has
\* id 0: "WHERE id = NULL" selects nothing).
NullId == 0
Markers ==
    {[last_run_datetime |-> d, schedule_id |-> 1] :
        d \in {Stamp(" ", 0), Stamp(" ", MaxTime), Stamp("?", 0)}}
    \cup {[last_run_datetime |-> Stamp(" ", 0), schedule_id |-> NullId]}

\* no handler is between two of its statements
NoRequests == [creating |-> {}, deleting |-> {}]
NoExec ==
    [by |-> "none", id |-> 0, after |-> <<>>, runs |-> 0, result |-> "", cmd |-> "", resp |-> ""]
RowIds == 1 .. MaxSchedules
\* the ids a request may name: those of the rows, and one that no row ever gets
Ids == 1 .. MaxSchedules + 1

Init ==
    /\ pc = "boot"
    /\ now = StartTime
    /\ templates = {}
    /\ schedule = {}
    /\ last_run \in {<<>>} \cup {<<m>> : m \in Markers}
    /\ seq_t = 0
    /\ seq_s = 0
    /\ jobs = {}
    /\ instances = [i \in Ids |-> 0]
    /\ flash = ""
    /\ requests = NoRequests
    /\ blocked = {}
    /\ h_steps = <<>>
    /\ h_exec = NoExec
    /\ h_recovered = <<>>
    /\ h_load = [i \in Ids |-> "none"]
    /\ h_form = [i \in RowIds |-> <<>>]
    /\ h_sweep = NoTime
    /\ h_reg = [i \in Ids |-> 0]
    /\ h_deleted = [i \in Ids |-> "none"]
    /\ h_once = [i \in Ids |-> "none"]

-----------------------------------------------------------------------------
(* __main__: init_db(); recover_scheduled_jobs(); load_scheduled_jobs(); scheduler.start() *)

\* __main__ with recover_scheduled_jobs() called after load_scheduled_jobs() has begun
InitDb_then_load ==
    /\ pc = "boot"
    /\ pc' = "sweep"
    /\ h_steps' = Append(h_steps, "init_db")
    /\ UNCHANGED <<now, requests, blocked, store, jobs, instances, flash, h_exec, h_recovered, h_load, h_form,
                   h_sweep, hist2>>

\* init_db: CREATE TABLE IF NOT EXISTS leaves existing tables as they are
InitDb ==
    /\ pc = "boot"
    /\ pc' = "recover"
    /\ h_steps' = Append(h_steps, "init_db")
    /\ UNCHANGED <<now, requests, blocked, store, jobs, instances, flash, h_exec, h_recovered, h_load, h_form,
                   h_sweep, hist2>>

\* h_once after the scheduler has started one more callback for item_id
OnceAfterRun(h, item_id) ==
    [h EXCEPT ![item_id] = IF @ = "pending" THEN "once"
                           ELSE IF @ = "once" THEN "more" ELSE @]

\* recovery with a freshness check: an expired one-shot is not re-executed
RecoverTarget_fresh(m) ==
    {r \in get_scheduled_item(m.schedule_id) :
        r.is_recurring = 1 \/ ~IsoParseable(r.scheduled_datetime)
            \/ fromisoformat(r.scheduled_datetime) >= now}

\* recovery that re-executes whatever row the store holds, whichever id the marker names
RecoverTarget_any_row(m) == schedule

\* schedule = get_scheduled_item(schedule_id): the row recovery re-executes, if any
RecoverTarget(m) == get_scheduled_item(m.schedule_id)

\* recover_scheduled_jobs: an exception here is not caught by __main__, and an
\* executor that does not return keeps __main__ where it is (pc "blocked")
RecoverScheduledJobs ==
    /\ pc = "recover"
    /\ IF last_run = <<>>
       THEN pc' = "sweep" /\ UNCHANGED <<h_exec, h_recovered>>
       ELSE LET m == last_run[1] IN
            IF ~IsoParseable(m.last_run_datetime)
            THEN pc' = "dead" /\ UNCHANGED <<h_exec, h_recovered>>
            ELSE IF RecoverTarget(m) = {}
            THEN pc' = "sweep" /\ UNCHANGED <<h_exec, h_recovered>>
            ELSE \E channel \in Channels :
                    LET r == execute_scheduled_item(m.schedule_id, channel) IN
                    /\ h_exec' = [by |-> "recovery", id |-> m.schedule_id, after |-> h_steps,
                                  runs |-> 0,
                                  result |-> r.result, cmd |-> r.cmd, resp |-> r.resp]
                    /\ h_recovered' = Append(h_recovered, m.schedule_id)
                    /\ pc' = IF r.result = "raised" THEN "dead"
                             ELSE IF r.result = "blocked" THEN "blocked" ELSE "sweep"
    /\ h_steps' = IF pc' \in {"dead", "blocked"} THEN h_steps
                   ELSE Append(h_steps, "recover_scheduled_jobs")
    /\ UNCHANGED <<now, requests, blocked, store, jobs, instances, flash, h_load, h_form, h_sweep, hist2>>

\* load_scheduled_jobs, first statement: now = datetime.now(); clear_expired_scheduled_items(now)
Sweep ==
    /\ pc = "sweep"
    /\ pc' = "load"
    /\ schedule' = clear_expired_scheduled_items(schedule, now)
    /\ h_sweep' = now
    /\ UNCHANGED <<now, requests, blocked, templates, last_run, seq_t, seq_s, jobs, instances, flash,
                   h_steps, h_exec, h_recovered, h_load, h_form, hist2>>

\* load_scheduled_jobs, the loop over get_all_scheduled_items()
Load ==
    /\ pc = "load"
    /\ pc' = "loaded"
    /\ jobs' = LoadJobs(schedule, jobs, now)
    /\ h_load' = [i \in Ids |->
                    IF get_scheduled_item(i) = {} THEN "none"
                    ELSE LoadOutcome(CHOOSE r \in get_scheduled_item(i) : TRUE, now)]
    /\ h_sweep' = NoTime
    /\ h_reg' = [i \in Ids |->
                   IF \E r \in get_scheduled_item(i) : LoadOutcome(r, now) = "registered"
                   THEN Min({2, h_reg[i] + 1}) ELSE h_reg[i]]
    /\ h_steps' = Append(h_steps, "load_scheduled_jobs")
    /\ UNCHANGED <<now, requests, blocked, store, instances, flash, h_exec, h_recovered, h_form, h_deleted, h_once>>

\* scheduler.start(): the pending jobs get their first run times
SchedulerStart ==
    /\ pc = "loaded"
    /\ pc' = "serving"
    /\ jobs' = {Job(j.id, j.trigger, j.schedule_id, j.name,
                    get_next_fire_time(j.trigger, NoTime, now)) : j \in jobs}
    /\ h_load' = [i \in Ids |-> "none"]
    /\ h_steps' = Append(h_steps, "scheduler.start")
    /\ UNCHANGED <<now, requests, blocked, store, instances, flash, h_exec, h_recovered, h_form, h_sweep, hist2>>

\* the scheduler thread dispatches only once start() has run
SchedulerRunning == pc = "serving"

\* the process ends (killed, or dead of an uncaught exception) and is started again:
\* the store stays, the scheduler's jobs and its running callbacks are gone
Restart ==
    /\ pc \in {"serving", "dead", "blocked"}
    /\ pc' = "boot"
    /\ jobs' = {}
    /\ flash' = ""
    /\ h_steps' = <<>>
    /\ h_exec' = NoExec
    /\ h_recovered' = <<>>
    /\ h_load' = [i \in Ids |-> "none"]
    /\ h_sweep' = NoTime
    /\ instances' = [i \in Ids |-> 0]
    /\ h_reg' = [i \in Ids |-> 0]
    /\ requests' = NoRequests
    /\ blocked' = {}
    /\ UNCHANGED <<now, store, h_form, h_deleted, h_once>>

\* the clock advances while the process serves, and between the two datetime.now()
\* calls of load_scheduled_jobs
Tick ==
    /\ pc \in {"serving", "load"}
    /\ now < MaxTime
    /\ now' = now + 1
    /\ UNCHANGED <<pc, requests, blocked, store, jobs, instances, flash, hist, hist2>>

-----------------------------------------------------------------------------
(* The scheduler thread *)

\* one due job is processed: its missed run times are coalesced into the last one,
\* which is handed to the pool unless a run of the job is still in progress there;
\* the run is dropped if it is older than the grace time; an exception of the
\* callback is logged by the scheduler and goes no further.  The callback reads the
\* store as it starts and stays in the pool until RunJobDone.
Fire(j) ==
    /\ SchedulerRunning
    /\ j.next_run_time # NoTime
    /\ j.next_run_time <= now
    /\ LET run_times == {u \in j.next_run_time .. now : FiresAt(j.trigger, u)}
           run_time == Max(run_times)
           next == get_next_fire_time(j.trigger, run_time, now)
       IN  /\ jobs' = IF next = NoTime THEN jobs \ {j}
                      ELSE (jobs \ {j}) \cup
                           {Job(j.id, j.trigger, j.schedule_id, j.name, next)}
           /\ IF ~InstanceFree(instances, j.schedule_id) \/ Misfired(run_time, now)
              THEN UNCHANGED <<h_exec, instances, h_once, blocked>>
              ELSE /\ instances' = [instances EXCEPT ![j.schedule_id] = @ + 1]
                   /\ h_once' = OnceAfterRun(h_once, j.schedule_id)
                   /\ \E channel \in Channels :
                         LET r == execute_scheduled_item(j.schedule_id, channel) IN
                         /\ h_exec' = [by |-> "timer", id |-> j.schedule_id,
                                       after |-> h_steps, runs |-> Cardinality(run_times),
                                       result |-> r.result, cmd |-> r.cmd, resp |-> r.resp]
                         /\ blocked' = IF r.result = "blocked"
                                       THEN blocked \cup {j.schedule_id} ELSE blocked
    /\ UNCHANGED <<pc, requests, now, store, flash, h_steps, h_recovered, h_load, h_form, h_sweep,
                   h_reg, h_deleted>>

\* a callback running in the pool returns (or its exception is logged): the pool
\* counts one run less for the job.  A callback that waits in sock.recv does not.
RunJobDone(item_id) ==
    /\ SchedulerRunning
    /\ instances[item_id] > 0
    /\ item_id \notin blocked
    /\ instances' = [instances EXCEPT ![item_id] = @ - 1]
    /\ UNCHANGED <<pc, requests, blocked, now, store, jobs, flash, hist, hist2>>

-----------------------------------------------------------------------------
(* The routes (served once app.run is reached) *)

add_template(name, payload) ==
    templates \cup {[id |-> seq_t + 1, name |-> name, payload |-> payload]}

\* route_add_template without the check of form_json.get('items')
RouteAddTemplate_no_item_check(template_name, fields) ==
    /\ pc = "serving"
    /\ IF template_name = ""
       THEN flash' = "error" /\ UNCHANGED <<templates, seq_t>>
       ELSE /\ seq_t < MaxTemplates
            /\ templates' = add_template(template_name, json_dumps_list(parse_form_items(fields)))
            /\ seq_t' = seq_t + 1
            /\ flash' = "success"
    /\ UNCHANGED <<pc, requests, blocked, now, schedule, last_run, seq_s, jobs, instances, hist, hist2>>

\* route_add_template
RouteAddTemplate(template_name, fields) ==
    /\ pc = "serving"
    /\ LET items == parse_form_items(fields) IN
       IF template_name = "" \/ items = <<>>
       THEN flash' = "error" /\ UNCHANGED <<templates, seq_t>>
       ELSE /\ seq_t < MaxTemplates
            /\ templates' = add_template(template_name, json_dumps_list(items))
            /\ seq_t' = seq_t + 1
            /\ flash' = "success"
    /\ UNCHANGED <<pc, requests, blocked, now, schedule, last_run, seq_s, jobs, instances, hist, hist2>>

\* route_delete_template: remove_template deletes the row; the connection never
\* turns foreign keys on, so no other table changes
RouteDeleteTemplate(template_id) ==
    /\ pc = "serving"
    /\ templates' = {t \in templates : t.id # template_id}
    /\ flash' = IF get_template(template_id) # {} THEN "success" ELSE "error"
    /\ UNCHANGED <<pc, requests, blocked, now, schedule, last_run, seq_t, seq_s, jobs, instances, hist, hist2>>

\* route_delete_schedule without the inner try: the JobLookupError of an id that has
\* no job reaches the outer except clause and the row is not looked at
RouteDeleteSchedule_no_inner_try(item_id) ==
    /\ pc = "serving"
    /\ jobs' = {j \in jobs : j.schedule_id # item_id}
    /\ IF \E j \in jobs : j.schedule_id = item_id
       THEN /\ schedule' = {r \in schedule : r.id # item_id}
            /\ flash' = IF get_scheduled_item(item_id) # {}
                        THEN "Scheduled item deleted successfully"
                        ELSE "Scheduled item not found"
       ELSE /\ schedule' = schedule
            /\ flash' = "Error deleting scheduled item"
    /\ h_deleted' = [h_deleted EXCEPT ![item_id] =
                        IF schedule' # schedule \/ @ = "deleted" THEN "deleted"
                        ELSE "not found"]
    /\ UNCHANGED <<pc, requests, blocked, now, templates, last_run, seq_t, seq_s, instances, hist, h_reg, h_once>>

\* route_delete_schedule: remove_job, then remove_scheduled_item
RouteDeleteSchedule(item_id) ==
    /\ pc = "serving"
    /\ jobs' = remove_job(jobs, item_id)
    /\ schedule' = {r \in schedule : r.id # item_id}
    /\ flash' = IF get_scheduled_item(item_id) # {}
                THEN "Scheduled item deleted successfully"
                ELSE "Scheduled item not found"
    /\ h_deleted' = [h_deleted EXCEPT ![item_id] =
                        IF get_scheduled_item(item_id) # {} \/ @ = "deleted" THEN "deleted"
                        ELSE "not found"]
    /\ UNCHANGED <<pc, requests, blocked, now, templates, last_run, seq_t, seq_s, instances, hist, h_reg, h_once>>

\* [int(color_hex[i:i+2], 16) for i in (0, 2, 4)] without a length check: a slice
\* that is empty raises ValueError, a slice of one digit is that digit
CustomColorOk(hex) == Len(hex) >= 5
CustomColor(hex) ==
    <<16 * hex[1] + hex[2], 16 * hex[3] + hex[4],
      IF Len(hex) = 5 THEN hex[5] ELSE 16 * hex[5] + hex[6]>>

\* the inline template of a schedule created without one
CustomPayload(label, custom_text, color) ==
    json_dumps_dict({"name", "text"}, "Custom_" \o label, <<>>,
                    <<Item("static", custom_text, 0, 10, color, -1)>>)

\* the trigger route_add_schedule builds for a recurring item, or ValueError
RouteCron(weekdays, time) ==
    LET cron_expr == create_cron_from_weekdays_time(weekdays, time) IN
    IF cron_expr.none THEN from_crontab(NineDaily) ELSE from_crontab(cron_expr)

\* the route with the comparison turned round
RouteOneShotDue_reversed(scheduled_dt, t) == scheduled_dt < t

\* whether the one-shot is added to the scheduler
RouteOneShotDue(scheduled_dt, t) == scheduled_dt > t

\* route_add_schedule
RouteAddSchedule(f) ==
    /\ pc = "serving"
    /\ LET recurring_weekdays == IF f.is_recurring THEN f.weekdays ELSE <<>>
           recurring_time == IF f.is_recurring THEN f.recurring_time ELSE <<>>
           scheduled_datetime ==
               IF f.is_recurring /\ f.scheduled_datetime = NoStamp
               THEN Placeholder ELSE f.scheduled_datetime
           custom == f.template_id = 0
           template_id == IF custom THEN seq_t + 1 ELSE f.template_id
           item_id == seq_s + 1
           row == [id |-> item_id, name |-> f.label,
                   scheduled_datetime |-> scheduled_datetime,
                   is_recurring |-> IF f.is_recurring THEN 1 ELSE 0,
                   recurring_weekdays |-> recurring_weekdays,
                   template_id |-> template_id]
       IN
       IF \/ ~f.is_recurring /\ scheduled_datetime = NoStamp
          \/ f.is_recurring /\ (recurring_weekdays = <<>> \/ recurring_time = <<>>)
          \/ custom /\ ~CustomColorOk(f.custom_color)
       THEN flash' = "error"
            /\ UNCHANGED <<templates, schedule, seq_t, seq_s, jobs, h_form, h_reg, h_once>>
       ELSE
       /\ seq_s < MaxSchedules
       /\ custom => seq_t < MaxTemplates
       /\ templates' = IF custom
                       THEN add_template("Custom_" \o f.label,
                                CustomPayload(f.label, f.custom_text, CustomColor(f.custom_color)))
                       ELSE templates
       /\ seq_t' = IF custom THEN seq_t + 1 ELSE seq_t
       /\ schedule' = schedule \cup {row}
       /\ seq_s' = item_id
       /\ h_form' = [h_form EXCEPT ![item_id] = recurring_time]
       /\ h_once' = [h_once EXCEPT ![item_id] =
                        IF /\ ~f.is_recurring /\ IsoParseable(scheduled_datetime)
                           /\ fromisoformat(scheduled_datetime) > now
                        THEN "pending" ELSE @]
       /\ IF f.is_recurring
          THEN LET cron == RouteCron(recurring_weekdays, recurring_time) IN
               IF cron.ok
               THEN /\ jobs' = add_job(jobs, cron.trigger, item_id, f.label, TRUE, now)
                    /\ flash' = "success"
               ELSE jobs' = jobs /\ flash' = "error"
          ELSE IF ~IsoParseable(scheduled_datetime)
               THEN jobs' = jobs /\ flash' = "error"
               ELSE /\ jobs' = IF RouteOneShotDue(fromisoformat(scheduled_datetime), now)
                               THEN add_job(jobs, DateTrigger(fromisoformat(scheduled_datetime)),
                                            item_id, f.label, TRUE, now)
                               ELSE jobs
                    /\ flash' = "success"
       /\ h_reg' = [h_reg EXCEPT ![item_id] =
                       IF jobs' # jobs THEN Min({2, @ + 1}) ELSE @]
    /\ UNCHANGED <<pc, requests, blocked, now, last_run, instances, h_steps, h_exec, h_recovered, h_load, h_sweep,
                   h_deleted>>

-----------------------------------------------------------------------------

Next ==
    \/ InitDb
    \/ RecoverScheduledJobs
    \/ Sweep
    \/ Load
    \/ SchedulerStart
    \/ Restart
    \/ Tick
    \/ \E j \in jobs : Fire(j)
    \/ \E item_id \in Ids : RunJobDone(item_id)
    \/ \E fields \in TemplateForms : RouteAddTemplate("t", fields)
    \/ \E template_id \in 1 .. MaxTemplates : RouteDeleteTemplate(template_id)
    \/ \E item_id \in Ids : RouteDeleteSchedule(item_id)
    \/ \E f \in ScheduleForms : RouteAddSchedule(f)

Spec == Init /\ [][Next]_vars

-----------------------------------------------------------------------------
(* The scheduler engine on its own: add_job, remove_job, start and the dispatch of
   due jobs, applied to any id and trigger the program hands it *)

\* a one-shot, '0 * * * *', and '0 12 * * 6' (the expression built for weekday 5 at
\* '12:00'; the scheduler fires it on Sundays at noon)
SundayNoon == create_cron_from_weekdays_time(<<5>>, <<12, 0>>)
EngineTriggers ==
    {DateTrigger(1), from_crontab(EveryHour).trigger, from_crontab(SundayNoon).trigger}

\* rows and an inline template for the callbacks to read; a callback may also find
\* its row gone (the id that has none) or its template gone (deleted while the timer
\* was live)
EngineRows ==
    {[id |-> i, name |-> "a", scheduled_datetime |-> Placeholder, is_recurring |-> 1,
      recurring_weekdays |-> <<0, 2, 4>>, template_id |-> 1] : i \in RowIds}

InitEngine ==
    /\ pc = "loaded"
    /\ now = 0
    /\ templates \in SUBSET {[id |-> 1, name |-> "Custom_a",
                              payload |-> CustomPayload("a", "HI", HexColor(Red))]}
    /\ schedule = EngineRows
    /\ last_run = <<>>
    /\ seq_t = 1
    /\ seq_s = MaxSchedules
    /\ jobs = {}
    /\ instances = [i \in Ids |-> 0]
    /\ flash = ""
    /\ requests = NoRequests
    /\ blocked = {}
    /\ h_steps = SubSeq(<<"init_db", "recover_scheduled_jobs", "load_scheduled_jobs",
                          "scheduler.start">>, 1, 3)
    /\ h_exec = NoExec
    /\ h_recovered = <<>>
    /\ h_load = [i \in Ids |-> "none"]
    /\ h_form = [i \in RowIds |-> <<>>]
    /\ h_sweep = NoTime
    /\ h_reg = [i \in Ids |-> 0]
    /\ h_deleted = [i \in Ids |-> "none"]
    /\ h_once = [i \in Ids |-> "none"]

\* scheduler.add_job(..., id=f"schedule_{item_id}", replace_existing=True), before or
\* after start()
EngineAddJob(item_id, trigger) ==
    /\ pc \in {"loaded", "serving"}
    /\ jobs' = add_job(jobs, trigger, item_id, "a", SchedulerRunning, now)
    /\ h_reg' = [h_reg EXCEPT ![item_id] = Min({2, @ + 1})]
    /\ UNCHANGED <<pc, requests, blocked, now, store, instances, flash, hist, h_deleted, h_once>>

\* scheduler.remove_job(f"schedule_{item_id}")
EngineRemoveJob(item_id) ==
    /\ pc \in {"loaded", "serving"}
    /\ jobs' = remove_job(jobs, item_id)
    /\ UNCHANGED <<pc, requests, blocked, now, store, instances, flash, hist, hist2>>

NextEngine ==
    \/ \E item_id \in Ids, trigger \in EngineTriggers : EngineAddJob(item_id, trigger)
    \/ \E item_id \in Ids : EngineRemoveJob(item_id)
    \/ SchedulerStart
    \/ Tick
    \/ \E j \in jobs : Fire(j)
    \/ \E item_id \in Ids : RunJobDone(item_id)

SpecEngine == InitEngine /\ [][NextEngine]_vars

-----------------------------------------------------------------------------
(* load_scheduled_jobs on its own, applied to the rows a store may hold when a
   process starts *)

\* a row as route_add_schedule writes it: a one-shot with a timestamp to come, one with
\* a timestamp gone by, one with text that is no timestamp, or a recurring row
LoadRows(i) ==
    {[id |-> i, name |-> "a", scheduled_datetime |-> d, is_recurring |-> 0,
      recurring_weekdays |-> <<>>, template_id |-> 1] :
        d \in {Stamp("T", StartTime + TicksPerDay), Stamp(" ", 0), Stamp("?", 0)}}
    \cup {[id |-> i, name |-> "a", scheduled_datetime |-> Placeholder, is_recurring |-> 1,
            recurring_weekdays |-> <<0, 2, 4>>, template_id |-> 1]}

InitLoad ==
    /\ pc = "sweep"
    /\ now = StartTime
    /\ templates = {}
    /\ \E present \in SUBSET Ids :
          \E row \in [present -> UNION {LoadRows(i) : i \in Ids}] :
             /\ \A i \in present : row[i].id = i
             /\ schedule = {row[i] : i \in present}
    /\ last_run = <<>>
    /\ seq_t = 1
    /\ seq_s = MaxSchedules + 1
    /\ jobs = {}
    /\ instances = [i \in Ids |-> 0]
    /\ flash = ""
    /\ requests = NoRequests
    /\ blocked = {}
    /\ h_steps = <<"init_db", "recover_scheduled_jobs">>
    /\ h_exec = NoExec
    /\ h_recovered = <<>>
    /\ h_load = [i \in Ids |-> "none"]
    /\ h_form = [i \in RowIds |-> <<>>]
    /\ h_sweep = NoTime
    /\ h_reg = [i \in Ids |-> 0]
    /\ h_deleted = [i \in Ids |-> "none"]
    /\ h_once = [i \in Ids |-> "none"]

\* load_scheduled_jobs called once more, right after it has returned and before the
\* clock moves: the sweep and the loop, on the jobs the first call left pending
LoadAgain ==
    /\ pc = "loaded"
    /\ LET rows == clear_expired_scheduled_items(schedule, now) IN
       /\ schedule' = rows
       /\ jobs' = LoadJobs(rows, jobs, now)
       /\ h_load' = [i \in Ids |->
                       IF \A r \in rows : r.id # i THEN "none"
                       ELSE LoadOutcome(CHOOSE r \in rows : r.id = i, now)]
       /\ h_reg' = [i \in Ids |->
                      IF \E r \in rows : r.id = i /\ LoadOutcome(r, now) = "registered"
                      THEN Min({2, h_reg[i] + 1}) ELSE h_reg[i]]
    /\ UNCHANGED <<pc, requests, blocked, now, templates, last_run, seq_t, seq_s, instances, flash,
                   h_steps, h_exec, h_recovered, h_form, h_sweep, h_deleted, h_once>>

NextLoad ==
    \/ Sweep
    \/ Tick
    \/ Load
    \/ LoadAgain
    \/ SchedulerStart

SpecLoad == InitLoad /\ [][NextLoad]_vars

-----------------------------------------------------------------------------
(* The routes as the threads of the server run them: each handler statement by
   statement, with the statements of another request in between *)

\* route_add_schedule up to add_scheduled_item: the form is checked, the inline
\* template and the row are written
CreateInsert(f) ==
    /\ pc = "serving"
    /\ requests.creating = {}
    /\ LET recurring_weekdays == IF f.is_recurring THEN f.weekdays ELSE <<>>
           recurring_time == IF f.is_recurring THEN f.recurring_time ELSE <<>>
           scheduled_datetime ==
               IF f.is_recurring /\ f.scheduled_datetime = NoStamp
               THEN Placeholder ELSE f.scheduled_datetime
           custom == f.template_id = 0
           item_id == seq_s + 1
           row == [id |-> item_id, name |-> f.label,
                   scheduled_datetime |-> scheduled_datetime,
                   is_recurring |-> IF f.is_recurring THEN 1 ELSE 0,
                   recurring_weekdays |-> recurring_weekdays,
                   template_id |-> IF custom THEN seq_t + 1 ELSE f.template_id]
       IN
       IF \/ ~f.is_recurring /\ scheduled_datetime = NoStamp
          \/ f.is_recurring /\ (recurring_weekdays = <<>> \/ recurring_time = <<>>)
          \/ custom /\ ~CustomColorOk(f.custom_color)
       THEN flash' = "error"
            /\ UNCHANGED <<templates, schedule, seq_t, seq_s, requests, h_form, h_once>>
       ELSE
       /\ seq_s < MaxSchedules
       /\ custom => seq_t < MaxTemplates
       /\ templates' = IF custom
                       THEN add_template("Custom_" \o f.label,
                                CustomPayload(f.label, f.custom_text, CustomColor(f.custom_color)))
                       ELSE templates
       /\ seq_t' = IF custom THEN seq_t + 1 ELSE seq_t
       /\ schedule' = schedule \cup {row}
       /\ seq_s' = item_id
       /\ requests' = [requests EXCEPT !.creating = {[item_id |-> item_id, row |-> row,
                                                      label |-> f.label,
                                                      recurring_time |-> recurring_time]}]
       /\ h_form' = [h_form EXCEPT ![item_id] = recurring_time]
       /\ h_once' = [h_once EXCEPT ![item_id] =
                        IF /\ ~f.is_recurring /\ IsoParseable(scheduled_datetime)
                           /\ fromisoformat(scheduled_datetime) > now
                        THEN "pending" ELSE @]
       /\ flash' = flash
    /\ UNCHANGED <<pc, now, last_run, jobs, instances, blocked, h_steps, h_exec, h_recovered,
                   h_load, h_sweep, h_reg, h_deleted>>

\* route_add_schedule from the trigger on: the timer is registered for the row
\* written before, and the handler returns
CreateRegister(q) ==
    /\ pc = "serving"
    /\ q \in requests.creating
    /\ IF q.row.is_recurring = 1
       THEN LET cron == RouteCron(q.row.recurring_weekdays, q.recurring_time) IN
            IF cron.ok
            THEN /\ jobs' = add_job(jobs, cron.trigger, q.item_id, q.label, TRUE, now)
                 /\ flash' = "success"
            ELSE jobs' = jobs /\ flash' = "error"
       ELSE IF ~IsoParseable(q.row.scheduled_datetime)
            THEN jobs' = jobs /\ flash' = "error"
            ELSE /\ jobs' = IF RouteOneShotDue(fromisoformat(q.row.scheduled_datetime), now)
                            THEN add_job(jobs, DateTrigger(fromisoformat(q.row.scheduled_datetime)),
                                         q.item_id, q.label, TRUE, now)
                            ELSE jobs
                 /\ flash' = "success"
    /\ h_reg' = [h_reg EXCEPT ![q.item_id] = IF jobs' # jobs THEN Min({2, @ + 1}) ELSE @]
    /\ requests' = [requests EXCEPT !.creating = {}]
    /\ UNCHANGED <<pc, now, store, instances, blocked, hist, h_deleted, h_once>>

\* route_delete_schedule, first statement: scheduler.remove_job inside its own try
DeleteCancel(item_id) ==
    /\ pc = "serving"
    /\ item_id \notin requests.deleting
    /\ jobs' = remove_job(jobs, item_id)
    /\ requests' = [requests EXCEPT !.deleting = @ \cup {item_id}]
    /\ UNCHANGED <<pc, now, store, instances, blocked, flash, hist, hist2>>

\* route_delete_schedule, the rest: remove_scheduled_item, and the handler returns
DeleteRow(item_id) ==
    /\ pc = "serving"
    /\ item_id \in requests.deleting
    /\ schedule' = {r \in schedule : r.id # item_id}
    /\ flash' = IF get_scheduled_item(item_id) # {}
                THEN "Scheduled item deleted successfully"
                ELSE "Scheduled item not found"
    /\ h_deleted' = [h_deleted EXCEPT ![item_id] =
                        IF get_scheduled_item(item_id) # {} \/ @ = "deleted" THEN "deleted"
                        ELSE "not found"]
    /\ requests' = [requests EXCEPT !.deleting = @ \ {item_id}]
    /\ UNCHANGED <<pc, now, templates, last_run, seq_t, seq_s, jobs, instances, blocked, hist,
                   h_reg, h_once>>

\* the process is serving, with an empty store
InitRace ==
    /\ pc = "serving"
    /\ now = StartTime
    /\ templates = {}
    /\ schedule = {}
    /\ last_run = <<>>
    /\ seq_t = 0
    /\ seq_s = 0
    /\ jobs = {}
    /\ instances = [i \in Ids |-> 0]
    /\ flash = ""
    /\ requests = NoRequests
    /\ blocked = {}
    /\ h_steps = <<"init_db", "recover_scheduled_jobs", "load_scheduled_jobs", "scheduler.start">>
    /\ h_exec = NoExec
    /\ h_recovered = <<>>
    /\ h_load = [i \in Ids |-> "none"]
    /\ h_form = [i \in RowIds |-> <<>>]
    /\ h_sweep = NoTime
    /\ h_reg = [i \in Ids |-> 0]
    /\ h_deleted = [i \in Ids |-> "none"]
    /\ h_once = [i \in Ids |-> "none"]

NextRace ==
    \/ \E f \in ScheduleForms : CreateInsert(f)
    \/ \E q \in requests.creating : CreateRegister(q)
    \/ \E item_id \in Ids : DeleteCancel(item_id)
    \/ \E item_id \in Ids : DeleteRow(item_id)
    \/ Tick

SpecRace == InitRace /\ [][NextRace]_vars

-----------------------------------------------------------------------------
(* The manual route: route_set_text hands its form to sign.set, which sends at once *)

\* set_text(text, x, y, color): the command it formats
set_text(text, x, y, color) ==
    "SETSTATIC;" \o text \o ";" \o IntStr(x) \o ";" \o IntStr(y) \o ";"
        \o IntStr(color[1]) \o "," \o IntStr(color[2]) \o "," \o IntStr(color[3]) \o ";END;"

Green == <<0, 0, 15, 15, 0, 0>>   \* "#00ff00"
\* the forms of route_set_text: text '', 'HI' or 'GO', x 0 or 1, y 10, a color
SetTextForms == [text : {"", "HI", "GO"}, x : {0, 1}, y : {10}, color : {Red, Green, Short}]

\* route_set_text: empty text and a color that has not 6 digits are reported as
\* errors; otherwise sign.set sends the command, whatever the device then answers
\* (the handler reports nothing while send_command has not returned)
RouteSetText(form) ==
    /\ pc = "serving"
    /\ IF form.text = "" \/ Len(form.color) # 6
       THEN flash' = "error" /\ h_exec' = h_exec
       ELSE \E channel \in Channels :
               LET command == set_text(form.text, form.x, form.y, HexColor(form.color)) IN
               /\ h_exec' = [by |-> "manual", id |-> NullId, after |-> h_steps, runs |-> 0]
                                @@ Sent(command, send_command(command, channel))
               /\ flash' = IF channel = "silent" THEN flash ELSE "success"
    /\ UNCHANGED <<pc, requests, blocked, now, store, jobs, instances, h_steps, h_recovered, h_load,
                   h_form, h_sweep, hist2>>

NextText ==
    \/ \E form \in SetTextForms : RouteSetText(form)
    \/ Tick

\* the process is serving (the state InitRace describes)
SpecText == InitRace /\ [][NextText]_vars

-----------------------------------------------------------------------------
(* A process that starts on a store with one row and its inline template, and runs
   on: every statement of __main__ that can proceed does, and every callback that
   can return does *)

InitHang ==
    /\ pc = "boot"
    /\ now = StartTime
    /\ templates = {[id |-> 1, name |-> "Custom_a",
                     payload |-> CustomPayload("a", "HI", HexColor(Red))]}
    /\ schedule \in {{r} : r \in LoadRows(1)}
    /\ last_run \in {<<>>, <<[last_run_datetime |-> Stamp(" ", 0), schedule_id |-> 1]>>}
    /\ seq_t = 1
    /\ seq_s = 1
    /\ jobs = {}
    /\ instances = [i \in Ids |-> 0]
    /\ flash = ""
    /\ requests = NoRequests
    /\ blocked = {}
    /\ h_steps = <<>>
    /\ h_exec = NoExec
    /\ h_recovered = <<>>
    /\ h_load = [i \in Ids |-> "none"]
    /\ h_form = [i \in RowIds |-> <<>>]
    /\ h_sweep = NoTime
    /\ h_reg = [i \in Ids |-> 0]
    /\ h_deleted = [i \in Ids |-> "none"]
    /\ h_once = [i \in Ids |-> "none"]

NextHang ==
    \/ InitDb
    \/ RecoverScheduledJobs
    \/ Sweep
    \/ Load
    \/ SchedulerStart
    \/ Tick
    \/ \E j \in jobs : Fire(j)
    \/ \E item_id \in Ids : RunJobDone(item_id)

\* the main thread goes from one statement to the next, and the pool's threads run
\* their callbacks to the end, whenever nothing holds them
SpecHang ==
    /\ InitHang /\ [][NextHang]_vars
    /\ WF_vars(InitDb) /\ WF_vars(RecoverScheduledJobs) /\ WF_vars(Sweep)
    /\ WF_vars(Load) /\ WF_vars(SchedulerStart)
    /\ \A item_id \in Ids : WF_vars(RunJobDone(item_id))

-----------------------------------------------------------------------------
(* Properties *)

JobsOf(item_id) == {j \in jobs : j.id = JobId(item_id)}
MainOrder == <<"init_db", "recover_scheduled_jobs", "load_scheduled_jobs", "scheduler.start">>
ValidTime(time) == Len(time) = 2 /\ time[1] \in 0 .. 23 /\ time[2] \in 0 .. 59
WeekdaySet(weekdays) == {weekdays[i] : i \in 1 .. Len(weekdays)}

\* C1: in every process the statements of __main__ return in the order init_db,
\* recover_scheduled_jobs, load_scheduled_jobs, scheduler.start; the executor run by
\* recovery runs after init_db and before anything else; the expiry sweep (the start
\* of reconciliation) runs only once recovery has returned; a job has a run time only
\* once start() has run; and a callback run by the scheduler runs only after all four.
C1_StartupOrder ==
    /\ h_steps = SubSeq(MainOrder, 1, Len(h_steps))
    /\ h_exec.by = "recovery" => h_exec.after = SubSeq(MainOrder, 1, 1)
    /\ h_sweep # NoTime => h_steps = SubSeq(MainOrder, 1, 2)
    /\ (\E j \in jobs : j.next_run_time # NoTime) => h_steps = MainOrder
    /\ h_exec.by = "timer" => h_exec.after = MainOrder

C1_Witness == h_exec.by = "timer" /\ h_exec.result = "sent" /\ h_steps = MainOrder

\* C2: once load_scheduled_jobs has returned, every recurring row with weekdays has
\* exactly one job, a cron trigger with the hour and minute given at creation and one
\* day of the week per weekday of the row.
C2_RecurrenceSurvivesRestart ==
    pc = "loaded" =>
        \A r \in schedule :
            (r.is_recurring = 1 /\ r.recurring_weekdays # <<>> /\ ValidTime(h_form[r.id])) =>
                /\ Cardinality(JobsOf(r.id)) = 1
                /\ \A j \in JobsOf(r.id) :
                      /\ j.trigger.kind = "cron"
                      /\ j.trigger.hour = h_form[r.id][1]
                      /\ j.trigger.minute = h_form[r.id][2]
                      /\ Cardinality(j.trigger.dow) = Cardinality(WeekdaySet(r.recurring_weekdays))

\* C3: when the executor has run for a row bound to a template that route_add_template
\* stored from one static field (text T, x, y, colour), it has sent exactly
\* "SETSTATIC;T;x;y;(r,g,b);END;".
C3_TemplateRoundTrip ==
    \A r \in schedule, t \in templates, fd \in TemplateFields :
        (/\ h_exec.by # "none" /\ h_exec.id = r.id /\ r.template_id = t.id
         /\ fd.element_type = "static"
         /\ t.payload = json_dumps_list(parse_form_items(<<fd>>))) =>
            /\ h_exec.result = "sent"
            /\ h_exec.cmd = "SETSTATIC;" \o fd.content \o ";" \o IntStr(fd.x) \o ";"
                            \o IntStr(fd.y) \o ";(" \o IntStr(HexColor(fd.color)[1]) \o ","
                            \o IntStr(HexColor(fd.color)[2]) \o ","
                            \o IntStr(HexColor(fd.color)[3]) \o ");END;"

\* C4: after an executor invocation whose command was sent and answered, the last_run
\* row exists and names the executed schedule id.
C4_MarkerFollowsExecution ==
    (h_exec.result = "sent" /\ h_exec.resp = "OK") =>
        (last_run # <<>> /\ last_run[1].schedule_id = h_exec.id)

\* C5: right after the expiry sweep no one-shot row with a timestamp earlier than the
\* sweep's now is left, whichever separator the timestamp was written with.
C5_SweepRemovesExpired ==
    (pc = "load" /\ h_sweep # NoTime) =>
        \A r \in schedule :
            (r.is_recurring = 0 /\ IsoParseable(r.scheduled_datetime)) =>
                ~(fromisoformat(r.scheduled_datetime) < h_sweep)

\* C6: the expiry sweep leaves every recurring row, every template row, the last_run
\* row and the id counters as they were.
C6_SweepFrame ==
    [][(pc = "sweep" /\ pc' = "load") =>
          /\ {r \in schedule' : r.is_recurring = 1} = {r \in schedule : r.is_recurring = 1}
          /\ schedule' \subseteq schedule
          /\ templates' = templates
          /\ last_run' = last_run
          /\ seq_t' = seq_t /\ seq_s' = seq_s]_vars

C6_Witness ==
    /\ pc = "load"
    /\ \E r \in schedule : r.is_recurring = 1 /\ fromisoformat(r.scheduled_datetime) < h_sweep

\* C7: once load_scheduled_jobs has returned, every one-shot row with a parseable
\* timestamp later than now has exactly one job, with id "schedule_<row id>", a date
\* trigger at that timestamp, and the row's id and name as the executor's arguments.
C7_FutureOneShotLoaded ==
    pc = "loaded" =>
        \A r \in schedule :
            (/\ r.is_recurring = 0 /\ IsoParseable(r.scheduled_datetime)
             /\ fromisoformat(r.scheduled_datetime) > now) =>
                /\ Cardinality(JobsOf(r.id)) = 1
                /\ \A j \in JobsOf(r.id) :
                      /\ j.trigger = DateTrigger(fromisoformat(r.scheduled_datetime))
                      /\ j.schedule_id = r.id
                      /\ j.name = r.name

C7_Witness ==
    /\ pc = "loaded"
    /\ \E r \in schedule :
          /\ r.is_recurring = 0 /\ IsoParseable(r.scheduled_datetime)
          /\ fromisoformat(r.scheduled_datetime) > now
          /\ JobsOf(r.id) # {}

\* C8: no step registers a date trigger whose run date is before now (neither
\* load_scheduled_jobs nor route_add_schedule), and no recurring row is ever left
\* out by the past-timestamp skip of load_scheduled_jobs.
Registered(js) == {<<j.id, j.trigger>> : j \in js}

C8_NoPastOneShotRegistered ==
    /\ [][\A j \in jobs' :
             (<<j.id, j.trigger>> \notin Registered(jobs) /\ j.trigger.kind = "date") =>
                 j.trigger.run_date >= now]_vars
    /\ [](\A r \in schedule : h_load[r.id] = "skipped" => r.is_recurring = 0)

C8_Witness ==
    /\ pc = "loaded"
    /\ \E r \in schedule : h_load[r.id] = "skipped" /\ JobsOf(r.id) = {}

\* C9: the cron trigger registered for a recurring row fires, at the hour and minute
\* given at creation, on exactly the days of the week the row stores (0 = Monday).
C9_FiresOnStoredWeekdays ==
    \A r \in schedule :
        (r.is_recurring = 1 /\ ValidTime(h_form[r.id])) =>
            \A j \in JobsOf(r.id), d \in AllDays :
                FiresOn(j.trigger, d, h_form[r.id][1], h_form[r.id][2])
                    <=> d \in WeekdaySet(r.recurring_weekdays)

C12_RecoveryFailureNonFatal == pc # "dead"

\* C13: at no moment are two callbacks of the same schedule id's job running in
\* the scheduler's pool, however firings, add_job calls for the id and slow
\* callbacks interleave.
C13_OneInFlightPerId == \A i \in Ids : instances[i] <= max_instances

\* a callback of id 1 is still running, the id was registered again meanwhile, and
\* its job is due once more
C13_Witness ==
    /\ instances[1] = 1
    /\ h_reg[1] = 2
    /\ \E j \in JobsOf(1) : j.next_run_time # NoTime /\ j.next_run_time <= now

\* C14: the scheduler never holds two jobs under one id, and every add_job for an
\* id, before or after start(), leaves exactly one job under that id, with the
\* trigger of that call, and the jobs of the other ids as they were.
C14_OneTimerPerId ==
    /\ [][\A i \in Ids, tr \in EngineTriggers :
             EngineAddJob(i, tr) =>
                 /\ Cardinality(JobsOf(i)') = 1
                 /\ \A j \in JobsOf(i)' : j.trigger = tr /\ j.schedule_id = i
                 /\ \A k \in Ids \ {i} : JobsOf(k)' = JobsOf(k)]_vars
    /\ [](\A i \in Ids : Cardinality(JobsOf(i)) <= 1)

\* id 1 was registered twice before start() and holds one job, while id 2 holds its own
C14_Witness ==
    /\ pc = "loaded"
    /\ h_reg[1] = 2
    /\ Cardinality(JobsOf(1)) = 1
    /\ JobsOf(2) # {}

C16_DeleteUnknownId ==
    [][\A k \in Ids :
         (RouteDeleteSchedule(k) /\ JobsOf(k) = {}) =>
             /\ pc' = "serving"
             /\ jobs' = jobs
             /\ templates' = templates /\ last_run' = last_run
             /\ {r \in schedule' : r.id # k} = {r \in schedule : r.id # k}
             /\ get_scheduled_item(k)' = {}
             /\ flash' = IF get_scheduled_item(k) = {}
                         THEN "Scheduled item not found"
                         ELSE "Scheduled item deleted successfully"]_vars

\* a delete request for id 2, which has neither row nor job, has reported "not
\* found" while the row and the job of id 1 are in place
C16_Witness ==
    /\ flash = "Scheduled item not found"
    /\ h_deleted[MaxSchedules + 1] = "not found"
    /\ get_scheduled_item(1) # {}
    /\ JobsOf(1) # {}

\* C17: a recurring row whose recurrence was given without weekdays, without a
\* time of day or with a time of day that is no valid HH:MM never has a job, neither
\* from route_add_schedule nor from load_scheduled_jobs.
C17_MalformedRecurrenceNoTimer ==
    \A r \in schedule :
        (/\ r.is_recurring = 1
         /\ r.recurring_weekdays = <<>> \/ ~ValidTime(h_form[r.id])) =>
            JobsOf(r.id) = {}

\* C18: when load_scheduled_jobs has returned, every row that the loop body registers
\* when taken alone has the job it would have if it were the only row, whatever
\* happened to the other rows, and no other row has a job.
C18_LoadContinuesPastFailure ==
    pc = "loaded" =>
        /\ Len(h_steps) = 3
        /\ \A r \in schedule :
              JobsOf(r.id) = IF LoadOutcome(r, now) = "registered"
                             THEN LoadJobs({r}, {}, now) ELSE {}
        /\ \A j \in jobs : get_scheduled_item(j.schedule_id) # {}

\* the loop has failed on one row (unparsable timestamp, or the missing column of a
\* recurring row) and registered the other
C18_Witness ==
    /\ pc = "loaded"
    /\ \E i \in Ids, k \in Ids :
          h_load[i] = "error" /\ h_load[k] = "registered" /\ JobsOf(k) # {}

\* C19 (as stated): a one-shot created with a timestamp still to come has been
\* executed exactly once as soon as its timestamp has gone by and the serving process
\* holds no job for it.
C19_ExactlyOnce ==
    \A r \in schedule :
        (/\ pc = "serving" /\ h_once[r.id] # "none"
         /\ fromisoformat(r.scheduled_datetime) <= now
         /\ JobsOf(r.id) = {}) =>
            h_once[r.id] = "once"

\* C19 (amended): the scheduler starts the callback of a one-shot created with a
\* timestamp still to come at most once over all processes; it starts it only after
\* the timestamp and within the grace time, while the row exists; the step leaves
\* the row in the store; and once it has run, no process holds a job for it again.
C19_OneShotAtMostOnce ==
    /\ [](\A i \in Ids : h_once[i] # "more")
    /\ [](\A i \in Ids : h_once[i] = "once" => JobsOf(i) = {})
    /\ [][\A i \in Ids :
             (h_once[i] = "pending" /\ h_once'[i] = "once") =>
                 /\ schedule' = schedule
                 /\ \E r \in get_scheduled_item(i) :
                       /\ fromisoformat(r.scheduled_datetime) <= now
                       /\ now - fromisoformat(r.scheduled_datetime) <= GraceTicks]_vars

\* the one-shot of id 1 ran in an earlier process; the process now serving has been
\* through load_scheduled_jobs, registered nothing for it, and its row is still there
C19_Witness ==
    /\ pc = "serving"
    /\ h_once[1] = "once"
    /\ h_reg[1] = 0
    /\ get_scheduled_item(1) # {}

\* the fragment the wire protocol has for an item: kinds static and scroll
ProtocolFragment(item) ==
    IF item.type = "static"
    THEN "STATIC;" \o item.content \o ";" \o IntStr(item.x) \o ";" \o IntStr(item.y)
         \o ";" \o ColorStr(item.color) \o ";END;"
    ELSE IF item.type = "scroll"
    THEN "SCROLL;" \o item.content \o ";" \o IntStr(item.x) \o ";" \o IntStr(item.y)
         \o ";" \o ColorStr(item.color) \o ";" \o IntStr(item.speed) \o ";END;"
    ELSE ""

RECURSIVE ProtocolFragments(_)
ProtocolFragments(items) ==
    IF items = <<>> THEN ""
    ELSE ProtocolFragment(Head(items)) \o ProtocolFragments(Tail(items))

\* C20: every executor invocation for a row whose template holds an item list as
\* route_add_template stored it sends "SET" followed by the fragments of its static
\* and scroll items, in list order.
C20_CommandIsSetPlusFragments ==
    [][\A r \in schedule, t \in templates :
         (/\ h_exec' # h_exec /\ h_exec'.by # "none"
          /\ h_exec'.id = r.id /\ r.template_id = t.id
          /\ t.payload.json = "array") =>
             /\ h_exec'.result = "sent"
             /\ h_exec'.cmd = "SET" \o ProtocolFragments(t.payload.elems)]_vars

\* C21: every scrolling item that route_add_template stored yields, in the command
\* the executor builds, the fragment "SCROLL;<text>;<x>;<y>;(<r>,<g>,<b>);<speed>;END;":
\* the kind tag parse_form wrote is one the executor's loop turns into that fragment.
C21_ScrollTagRecognised ==
    \A t \in templates :
        t.payload.json = "array" =>
            \A i \in 1 .. Len(t.payload.elems) :
                LET item == t.payload.elems[i] IN
                item.speed # -1 =>
                    Fragment(item) =
                        "SCROLL;" \o item.content \o ";" \o IntStr(item.x) \o ";"
                            \o IntStr(item.y) \o ";" \o ColorStr(item.color) \o ";"
                            \o IntStr(item.speed) \o ";END;"

\* C22: executing a schedule created without a template, with text T and color
\* (r,g,b), sends a command with exactly one fragment, "STATIC;T;0;10;(r,g,b);END;".
C22_InlineTextIsSent ==
    [][\A r \in schedule, t \in templates :
         (/\ h_exec' # h_exec /\ h_exec'.by # "none"
          /\ h_exec'.id = r.id /\ r.template_id = t.id
          /\ t.payload.json = "object" /\ "text" \in t.payload.keys
          /\ Len(t.payload.text) = 1) =>
             LET item == t.payload.text[1] IN
             /\ h_exec'.result = "sent"
             /\ h_exec'.cmd = "SET" \o "STATIC;" \o item.content \o ";0;10;"
                                 \o ColorStr(item.color) \o ";END;"]_vars

\* C23: a create-template request with an item whose color has not exactly 6 hex
\* digits, and a create-schedule request with inline text and such a color, report
\* an error and leave the templates, the schedule rows and the timers as they
\* were, whatever else the request carries.
C23_BadColorRejected ==
    [][/\ \A fields \in TemplateForms :
            (/\ RouteAddTemplate("t", fields)
             /\ \E i \in 1 .. Len(fields) : Len(fields[i].color) # 6) =>
                 /\ flash' = "error"
                 /\ UNCHANGED <<templates, schedule, jobs>>
       /\ \A f \in ScheduleForms :
            (/\ RouteAddSchedule(f)
             /\ f.template_id = 0
             /\ Len(f.custom_color) # 6) =>
                 /\ flash' = "error"
                 /\ UNCHANGED <<templates, schedule, jobs>>]_vars

\* whether the text s begins with the text p
StartsWith(s, p) == Len(s) >= Len(p) /\ SubSeq(s, 1, Len(p)) = p

\* the scheduler started a callback for item_id in this step
Started(item_id) == instances'[item_id] = instances[item_id] + 1

\* the dispatch of j leaves every other timer as it was, and a recurring j in place
\* with a run time to come
TimersKept(j) ==
    /\ \A k \in jobs \ {j} : k \in jobs'
    /\ j.trigger.kind = "cron" =>
          \E k \in jobs' : k.id = j.id /\ k.trigger = j.trigger /\ k.next_run_time > now

\* C24: a callback started for an id whose row is missing, or whose row names a
\* template that is missing, sends nothing to the device and changes no stored
\* state (no marker is written); the process goes on and every timer stays.
C24_MissingRowOrTemplate ==
    [][\A j \in jobs :
         (/\ Fire(j)
          /\ Started(j.schedule_id)
          /\ \/ get_scheduled_item(j.schedule_id) = {}
             \/ \E r \in get_scheduled_item(j.schedule_id) : get_template(r.template_id) = {}) =>
             /\ h_exec'.by = "timer" /\ h_exec'.id = j.schedule_id
             /\ h_exec'.result # "sent"
             /\ h_exec'.cmd = "" /\ h_exec'.resp = ""
             /\ UNCHANGED <<templates, schedule, last_run, seq_t, seq_s, pc>>
             /\ TimersKept(j)]_vars

\* C24 witness: the scheduler ran the callback of a timer whose id has no row; the
\* timer is still there
C24_Witness ==
    /\ pc = "serving"
    /\ h_exec.by = "timer"
    /\ h_exec.result = "raised"
    /\ get_scheduled_item(h_exec.id) = {}
    /\ JobsOf(h_exec.id) # {}

\* C25: send_command hands its caller a string whatever the device endpoint does:
\* the response, or text beginning with "ERROR:" when the endpoint is absent,
\* refuses the connection or fails otherwise; the callback then ends normally and
\* the timers stay, a recurring one with its next run time.
C25_SendNeverRaises ==
    [][\A j \in jobs :
         (/\ Fire(j)
          /\ Started(j.schedule_id)
          /\ h_exec'.result = "sent") =>
             /\ h_exec'.resp = "OK" \/ StartsWith(h_exec'.resp, "ERROR:")
             /\ pc' = pc
             /\ TimersKept(j)]_vars

\* C25 witness: a callback got an "ERROR:" response and its recurring timer waits
\* for its next run time
C25_Witness ==
    /\ pc = "serving"
    /\ h_exec.by = "timer"
    /\ h_exec.result = "sent"
    /\ StartsWith(h_exec.resp, "ERROR:")
    /\ \E j \in JobsOf(h_exec.id) : j.trigger.kind = "cron" /\ j.next_run_time > now

\* C26: a due timer dispatched late runs its callback once for all the fire times
\* it missed when the last of them is within the grace time, and not at all when
\* it is older; a recurring timer is left waiting for its next regular fire time.
C26_CoalesceAndGrace ==
    [][\A j \in jobs :
         Fire(j) =>
            LET item_id == j.schedule_id
                run_times == {u \in j.next_run_time .. now : FiresAt(j.trigger, u)}
                late == now - Max(run_times)
            IN  /\ instances'[item_id] \in {instances[item_id], instances[item_id] + 1}
                /\ \A i \in Ids \ {item_id} : instances'[i] = instances[i]
                /\ (InstanceFree(instances, item_id) /\ late <= GraceTicks) =>
                      /\ Started(item_id)
                      /\ h_exec'.by = "timer" /\ h_exec'.id = item_id
                      /\ h_exec'.runs = Cardinality(run_times)
                /\ late > GraceTicks =>
                      /\ instances' = instances
                      /\ h_exec' = h_exec
                /\ j.trigger.kind = "cron" =>
                      \E k \in jobs' :
                         /\ k.id = j.id /\ k.trigger = j.trigger
                         /\ k.next_run_time > now
                         /\ FiresAt(j.trigger, k.next_run_time)
                         /\ \A u \in now + 1 .. k.next_run_time - 1 : ~FiresAt(j.trigger, u)]_vars

\* C26 witness: one callback ran for a dispatch that covered two or more fire times
\* of a recurring timer, which now waits for its next one
C26_Witness ==
    /\ pc = "serving"
    /\ h_exec.by = "timer"
    /\ h_exec.runs >= 2
    /\ instances[h_exec.id] = 1
    /\ \E j \in JobsOf(h_exec.id) : j.trigger.kind = "cron" /\ j.next_run_time > now

\* the display items a stored payload holds, under whichever member
StoredItems(payload) ==
    IF payload.json = "array" THEN payload.elems ELSE payload.items \o payload.text

C28_NoOrphanTimer ==
    requests = NoRequests =>
        \A j \in jobs : get_scheduled_item(j.schedule_id) # {}

\* C29: route_add_schedule is all-or-nothing: when it reports an error, no schedule
\* row and no inline template have been written and no timer registered; when it
\* reports success for a recurring item or a one-shot still to come, the row and
\* its timer both exist.
C29_CreateAllOrNothing ==
    [][\A f \in ScheduleForms :
         RouteAddSchedule(f) =>
            /\ flash' = "error" => UNCHANGED <<templates, schedule, jobs>>
            /\ (/\ flash' = "success"
                /\ \/ f.is_recurring
                   \/ /\ IsoParseable(f.scheduled_datetime)
                      /\ fromisoformat(f.scheduled_datetime) > now) =>
                   /\ \E r \in schedule' : r.id = seq_s'
                   /\ \E j \in jobs' : j.schedule_id = seq_s']_vars

\* C30: the timer load_scheduled_jobs registers for a stored row has the trigger
\* route_add_schedule registered when the row was created: a recurring row gets
\* the cron trigger of its weekdays and time (or of the same fallback), a one-shot
\* row that gets a timer gets the date trigger of its timestamp.
C30_ReloadedTriggerSame ==
    pc = "loaded" =>
        \A r \in schedule :
            /\ (r.is_recurring = 1 /\ RouteCron(r.recurring_weekdays, h_form[r.id]).ok) =>
                  \E j \in JobsOf(r.id) :
                     j.trigger = RouteCron(r.recurring_weekdays, h_form[r.id]).trigger
            /\ r.is_recurring = 0 =>
                  \A j \in JobsOf(r.id) :
                     j.trigger = DateTrigger(fromisoformat(r.scheduled_datetime))

\* C31: for the same text, x, y and color, the command route_set_text sends is,
\* byte for byte, the command the executor builds for a template with that one
\* static item, the color written as "(r,g,b)".
C31_ManualSameAsExecutor ==
    [][\A form \in SetTextForms :
         (RouteSetText(form) /\ flash' = "success") =>
            LET color == HexColor(form.color) IN
            /\ h_exec'.cmd =
                  "SET" \o Fragments(<<Item("static", form.text, form.x, form.y, color, -1)>>)
            /\ h_exec'.cmd =
                  "SETSTATIC;" \o form.text \o ";" \o IntStr(form.x) \o ";" \o IntStr(form.y)
                      \o ";" \o ColorStr(color) \o ";END;"]_vars

\* C32: deleting a template that schedule rows still name either removes those
\* rows and their timers or is refused, so that every schedule row's template_id
\* names a template row that exists.
C32_NoDanglingTemplateId ==
    [][\A template_id \in 1 .. MaxTemplates :
         (RouteDeleteTemplate(template_id) /\ get_template(template_id) # {}) =>
            \/ /\ templates' = templates
               /\ flash' = "error"
            \/ /\ \A r \in schedule' : r.template_id # template_id
               /\ \A j \in jobs' : \E r \in schedule' : r.id = j.schedule_id]_vars

\* C34: load_scheduled_jobs run a second time on the store and at the clock value
\* of its first run leaves the timers as the first run left them: the same ids
\* with the same triggers, and no id with two timers.
C34_LoadIdempotent ==
    [][LoadAgain =>
          /\ jobs' = jobs
          /\ \A i \in Ids : Cardinality({j \in jobs' : j.schedule_id = i}) <= 1]_vars

\* C34 witness: the second run has registered a row's timer again, and the row
\* has one timer
C34_Witness ==
    /\ pc = "loaded"
    /\ \E i \in Ids : h_reg[i] = 2 /\ Cardinality(JobsOf(i)) = 1

\* C33: every call of the executor returns, also when the device endpoint takes the
\* connection and never sends a response line; so a startup that finds a marker
\* goes on to the serving state, and a callback the scheduler started gives its
\* place in the pool back.
C33_ExecutorTerminates ==
    /\ [](pc # "blocked" /\ blocked = {})
    /\ (pc = "recover") ~> (pc = "serving")
    /\ \A item_id \in Ids : (instances[item_id] > 0) ~> (instances[item_id] = 0)

=============================================================================
